---- MODULE Spec2Model ----
(***************************************************************************)
(* Model of server.js (Stan's World local dev server).                     *)
(*                                                                         *)
(* Text (index.html, request paths, serialized JSON) is a sequence of      *)
(* lexemes.  A lexeme is a run of characters the code never looks inside:  *)
(* the anchor "const PROJECTS", one bracket, one semicolon, one image      *)
(* reference, one tag, one path separator.  Indices are 1-based; 0 stands  *)
(* for JavaScript's -1 ("not found").                                      *)
(***************************************************************************)
EXTENDS Integers, Sequences, FiniteSets, TLC

\* ------------------------------------------------------------------ bounds
MaxDocLen  == 6   \* longest index.html (in lexemes) a single save is tried on
MaxAuxLen  == 3   \* lexemes around the literal in the documents of SpecAux
MaxRaceLen == 2   \* lexemes around the literal in the documents of SpecRace
MaxPathLen == 4   \* lexemes after the leading "/" of a request path
MaxChunks  == 1   \* 'data' events per request body

\* ------------------------------------------------------------- sequences
SeqsUpTo(S, n) == UNION {[1..k -> S] : k \in 0..n}

\* s.slice(from) / s.slice(0, to), on 1-based positions
SliceFrom(s, from) == SubSeq(s, from, Len(s))
SliceTo(s, to) == SubSeq(s, 1, to)

\* String.prototype.startsWith
StartsWith(s, p) == Len(p) <= Len(s) /\ SubSeq(s, 1, Len(p)) = p

\* String.prototype.indexOf(tok, from): first position >= from, 0 if none
RECURSIVE IndexOf(_, _, _)
IndexOf(s, tok, from) ==
  IF from > Len(s) THEN 0
  ELSE IF s[from] = tok THEN from
  ELSE IndexOf(s, tok, from + 1)

\* ------------------------------------------------------- JSON.stringify
\* A record of the payload is an object with one string field t; the value
\* of t is a sequence of characters (each a lexeme).
Rec(str) == [t |-> str]

\* JSON string escaping of one character
EscapeChar(c) == IF c = "\"" THEN "\\\"" ELSE IF c = "\\" THEN "\\\\" ELSE c

SerializeString(str) ==
  <<"\"">> \o [i \in 1..Len(str) |-> EscapeChar(str[i])] \o <<"\"">>

\* one object at indent level 1 of JSON.stringify(v, null, 2)
SerializeRecord(rec) ==
  <<"{", "\n    ", "\"t\"", ": ">> \o SerializeString(rec.t) \o <<"\n  ", "}">>

RECURSIVE SerializeItems(_)
SerializeItems(ps) ==
  IF Len(ps) = 1 THEN SerializeRecord(ps[1])
  ELSE SerializeRecord(Head(ps)) \o <<",", "\n  ">> \o SerializeItems(Tail(ps))

SerializeArray(ps) ==
  IF ps = <<>> THEN <<"[", "]">>
  ELSE <<"[", "\n  ">> \o SerializeItems(ps) \o <<"\n", "]">>

\* `${JSON.stringify(projects, null, 2)}`: JSON.stringify(undefined) is
\* undefined, which the template literal renders as the text "undefined".
Stringify(body) ==
  IF body.hasProjects THEN SerializeArray(body.projects) ELSE <<"undefined">>

\* ------------------------------------------------- the PROJECTS literal
ANCHOR == "const PROJECTS"

\* html.indexOf('const PROJECTS')
Marker(html) == IndexOf(html, ANCHOR, 1)

\* html.indexOf('[', marker)
OpenBracket(html) == IndexOf(html, "[", Marker(html))

\* the for loop walking forward from openBracket counting brackets
RECURSIVE ScanClose(_, _, _)
ScanClose(html, i, depth) ==
  IF i > Len(html) THEN 0
  ELSE IF html[i] = "[" THEN ScanClose(html, i + 1, depth + 1)
  ELSE IF html[i] = "]"
    THEN IF depth - 1 = 0 THEN i ELSE ScanClose(html, i + 1, depth - 1)
  ELSE ScanClose(html, i + 1, depth)

\* a scan that takes the first "]" as the close, whatever the depth
CloseBracketNoDepth(html) == IndexOf(html, "]", OpenBracket(html))

\* a scan that takes the end of the document as the close of an open literal
CloseBracketToEnd(html) ==
  LET c == ScanClose(html, OpenBracket(html), 0) IN IF c = 0 THEN Len(html) ELSE c

CloseBracket(html) == ScanClose(html, OpenBracket(html), 0)

\* endPos: the first position kept after the literal (html[closeBracket + 1]
\* is undefined past the end of the text)
EndPos(html) ==
  LET c == CloseBracket(html)
  IN  IF c + 1 <= Len(html) /\ html[c + 1] = ";" THEN c + 2 ELSE c + 1

\* the three early returns with status 400; "" when the literal is found
PatchError(html) ==
  IF Marker(html) = 0 THEN "Could not find \"const PROJECTS\" in index.html."
  ELSE IF OpenBracket(html) = 0 THEN "Could not find opening [ after const PROJECTS."
  ELSE IF CloseBracket(html) = 0 THEN "Could not find closing ] for PROJECTS array."
  ELSE ""

\* html.slice(0, marker) + `const PROJECTS = ${newArray};` + html.slice(endPos)
Splice(html, newArray) ==
  SliceTo(html, Marker(html) - 1) \o <<ANCHOR, " = ">> \o newArray \o <<";">>
    \o SliceFrom(html, EndPos(html))

\* --------------------------------------------------- String.replace
\* The replacement string of String.prototype.replace: "$&" stands for the
\* matched text, every other lexeme for itself.
RECURSIVE Expand(_, _)
Expand(tpl, match) ==
  IF tpl = <<>> THEN <<>>
  ELSE (IF Head(tpl) = "$&" THEN match ELSE <<Head(tpl)>>) \o Expand(Tail(tpl), match)

\* /url\(['"]?Desk_Image\.png['"]?\)/ : the texts the pattern matches
BGRefs ==
  {"url(Desk_Image.png)", "url('Desk_Image.png')", "url(\"Desk_Image.png\")",
   "url('Desk_Image.png\")", "url(\"Desk_Image.png')",
   "url('Desk_Image.png)", "url(Desk_Image.png')",
   "url(\"Desk_Image.png)", "url(Desk_Image.png\")"}

\* `url('${settings.bg}')` with the match substituted
BGReplacement(bg, match) == Expand(<<"url('">> \o bg \o <<"')">>, <<match>>)

\* replaced.replace(/.../g, ...): every match, left to right
RECURSIVE ReplaceBGFrom(_, _, _)
ReplaceBGFrom(text, bg, i) ==
  IF i > Len(text) THEN <<>>
  ELSE (IF text[i] \in BGRefs THEN BGReplacement(bg, text[i]) ELSE <<text[i]>>)
         \o ReplaceBGFrom(text, bg, i + 1)

\* the same replace without the g flag: the first match only
ReplaceBGFirst(text, bg) ==
  LET hits == {i \in 1..Len(text) : text[i] \in BGRefs}
  IN  IF hits = {} THEN text
      ELSE LET i == CHOOSE k \in hits : \A j \in hits : k <= j
           IN  SliceTo(text, i - 1) \o BGReplacement(bg, text[i]) \o SliceFrom(text, i + 1)

ReplaceBG(text, bg) == ReplaceBGFrom(text, bg, 1)

\* "." of the title pattern matches anything but a line terminator
IsNewline(l) == l \in {"\n", "\n  ", "\n    "}

\* /<title>.*?<\/title>/ from an opening tag at i - 1: the nearest closing
\* tag, 0 if a line break or the end of the text comes first
RECURSIVE TitleEnd(_, _)
TitleEnd(text, i) ==
  IF i > Len(text) THEN 0
  ELSE IF text[i] = "</title>" THEN i
  ELSE IF IsNewline(text[i]) THEN 0
  ELSE TitleEnd(text, i + 1)

\* the leftmost opening tag from which the pattern matches, 0 if none
RECURSIVE TitleStart(_, _)
TitleStart(text, i) ==
  IF i > Len(text) THEN 0
  ELSE IF text[i] = "<title>" /\ TitleEnd(text, i + 1) # 0 THEN i
  ELSE TitleStart(text, i + 1)

\* replaced.replace(/<title>.*?<\/title>/, `<title>${settings.title}</title>`)
ReplaceTitle(text, title) ==
  LET i == TitleStart(text, 1)
  IN  IF i = 0 THEN text
      ELSE LET j == TitleEnd(text, i + 1)
           IN  SliceTo(text, i - 1)
                 \o Expand(<<"<title>">> \o title \o <<"</title>">>, SubSeq(text, i, j))
                 \o SliceFrom(text, j + 1)

\* if (settings.bg) ... ; an absent and an empty string are both falsy and
\* both written <<>>
AfterBG(text, body) == IF body.bg # <<>> THEN ReplaceBG(text, body.bg) ELSE text
AfterTitle(text, body) ==
  IF body.title # <<>> THEN ReplaceTitle(text, body.title) ELSE text

\* the text handed to fs.writeFileSync
Patched(html, body) == AfterTitle(AfterBG(Splice(html, Stringify(body)), body), body)

\* ------------------------------------------------------------ paths
\* A path is a sequence of lexemes; "/" is the separator.  FOLDER is
\* __dirname; beside it lies a directory whose name begins with FOLDER's.
FOLDER == <<"/", "srv", "/", "site">>
SIBLING == <<"/", "srv", "/", "site", "-evil">>

\* the segments between separators, empty ones included
RECURSIVE SplitFrom(_, _, _)
SplitFrom(p, i, cur) ==
  IF i > Len(p) THEN <<cur>>
  ELSE IF p[i] = "/" THEN <<cur>> \o SplitFrom(p, i + 1, <<>>)
  ELSE SplitFrom(p, i + 1, Append(cur, p[i]))

Split(p) == SplitFrom(p, 1, <<>>)

\* a segment spelling ".." (one lexeme or two dots) or "."
IsDotDot(seg) == seg = <<"..">> \/ seg = <<".", ".">>
IsDot(seg) == seg = <<".">>

\* path.normalize's walk over the segments of an absolute path: empty and
\* "." segments are dropped, ".." drops the segment before it (none at "/")
RECURSIVE NormSegs(_, _, _)
NormSegs(segs, i, stack) ==
  IF i > Len(segs) THEN stack
  ELSE IF segs[i] = <<>> \/ IsDot(segs[i]) THEN NormSegs(segs, i + 1, stack)
  ELSE IF IsDotDot(segs[i])
    THEN NormSegs(segs, i + 1, IF stack = <<>> THEN stack ELSE SliceTo(stack, Len(stack) - 1))
  ELSE NormSegs(segs, i + 1, Append(stack, segs[i]))

RECURSIVE JoinSegs(_)
JoinSegs(segs) ==
  IF segs = <<>> THEN <<>> ELSE <<"/">> \o Head(segs) \o JoinSegs(Tail(segs))

\* path.join(a, b) for an absolute a: normalize(a + "/" + b); a trailing
\* separator is kept
PathJoin(a, b) ==
  LET raw == a \o <<"/">> \o b
      segs == NormSegs(Split(raw), 1, <<>>)
  IN  IF segs = <<>> THEN <<"/">>
      ELSE JoinSegs(segs) \o (IF raw[Len(raw)] = "/" THEN <<"/">> ELSE <<>>)

\* let filePath = pathname === '/' ? '/index.html' : pathname;
\* filePath = path.join(FOLDER, filePath)
FilePath(pathname) ==
  PathJoin(FOLDER, IF pathname = <<"/">> THEN <<"/", "index.html">> ELSE pathname)

\* !filePath.startsWith(FOLDER)
Forbidden(filePath) == ~StartsWith(filePath, FOLDER)

\* the file system around the site root
Dirs == {<<"/">>, <<"/", "srv">>, FOLDER, SIBLING}
Files(present) ==
  {FOLDER \o <<"/", "f">>, SIBLING \o <<"/", "f">>}
    \cup (IF present THEN {FOLDER \o <<"/", "index.html">>} ELSE {})

\* fs.existsSync: a path with a trailing separator names a directory
Exists(filePath, present) ==
  IF Len(filePath) > 1 /\ filePath[Len(filePath)] = "/"
  THEN SliceTo(filePath, Len(filePath) - 1) \in Dirs
  ELSE filePath \in Dirs \cup Files(present)

\* ------------------------------------------------------------ state
VARIABLES
  disk,       \* the text of index.html on disk (<<>> while the file is absent)
  present,    \* whether index.html exists
  req,        \* the requests: method, pathname and body of each
  pc,         \* where each request stands: new, receiving, patching, done
  pending,    \* 'data' events each request's body still has to deliver
  html,       \* the handler's local html: what fs.readFileSync returned
  steps,      \* the handler's local replaced after the splice, bg and title steps
  resp,       \* the response written to each request (status 0: none yet)
  nwrites,    \* how many times each request called fs.writeFileSync
  order,      \* the requests whose 'end' callback has finished, in that order
  after,      \* the text on disk when each request's 'end' callback finished
  disk0,      \* the text of index.html before any request
  readPaths   \* the paths handed to fs.createReadStream

vars == <<disk, present, req, pc, pending, html, steps, resp, nwrites, order,
          after, disk0, readPaths>>

\* --------------------------------------------------------- requests
Body(json, hasProjects, projects, bg, title) ==
  [json |-> json, hasProjects |-> hasProjects, projects |-> projects,
   bg |-> bg, title |-> title]

\* a body JSON.parse rejects
Malformed == Body(FALSE, FALSE, <<>>, <<>>, <<>>)
\* {"settings": {...}} : valid JSON with no projects field
NoProjects(bg, title) == Body(TRUE, FALSE, <<>>, bg, title)
\* {"projects": [...], "settings": {...}}
Save(projects, bg, title) == Body(TRUE, TRUE, projects, bg, title)

Request(method, path, body) == [method |-> method, path |-> path, body |-> body]

SavePath == <<"/", "save-projects">>

\* a route test that looks at the pathname only
IsSaveRoutePathOnly(q) == q.path = SavePath

\* req.method === 'POST' && pathname === '/save-projects'
IsSaveRoute(q) == q.method = "POST" /\ q.path = SavePath

\* ---------------------------------------------------------- responses
NoResp == [status |-> 0, kind |-> "none", ok |-> FALSE, count |-> 0, error |-> ""]
Empty(status) == [NoResp EXCEPT !.status = status, !.kind = "empty"]
Text(status, msg) == [NoResp EXCEPT !.status = status, !.kind = "text", !.error = msg]
Stream(status) == [NoResp EXCEPT !.status = status, !.kind = "file"]
JsonError(status, msg) == [NoResp EXCEPT !.status = status, !.kind = "json", !.error = msg]
JsonOk(n) == [NoResp EXCEPT !.status = 200, !.kind = "json", !.ok = TRUE, !.count = n]

NoSteps == [spliced |-> <<>>, bg |-> <<>>, title |-> <<>>]

\* ------------------------------------------------------------ actions
\* a handler in which other callbacks run between the read and the write
\* (asynchronous file calls)
IdleAsync == TRUE

\* Node runs a callback to completion: no other callback starts while an
\* 'end' callback is between its readFileSync and its writeFileSync
Idle == \A r \in DOMAIN pc : pc[r] # "patching"

\* if (req.method === 'OPTIONS') { res.writeHead(204); res.end(); return; }
Options(r) ==
  /\ Idle /\ pc[r] = "new" /\ req[r].method = "OPTIONS"
  /\ resp' = [resp EXCEPT ![r] = Empty(204)]
  /\ pc' = [pc EXCEPT ![r] = "done"]
  /\ UNCHANGED <<disk, present, req, pending, html, steps, nwrites, order, after,
                 disk0, readPaths>>

\* the write route: register the 'data' and 'end' listeners and return
Route(r) ==
  /\ Idle /\ pc[r] = "new" /\ req[r].method # "OPTIONS" /\ IsSaveRoute(req[r])
  /\ pc' = [pc EXCEPT ![r] = "receiving"]
  /\ UNCHANGED <<disk, present, req, pending, html, steps, resp, nwrites, order,
                 after, disk0, readPaths>>

\* every other request: the static file branch
Static(r) ==
  /\ Idle /\ pc[r] = "new" /\ req[r].method # "OPTIONS" /\ ~IsSaveRoute(req[r])
  /\ LET filePath == FilePath(req[r].path)
     IN  /\ resp' = [resp EXCEPT ![r] =
                       IF Forbidden(filePath) THEN Text(403, "Forbidden")
                       ELSE IF ~Exists(filePath, present) THEN Text(404, "Not found")
                       ELSE Stream(200)]
         /\ readPaths' = IF ~Forbidden(filePath) /\ Exists(filePath, present)
                         THEN readPaths \cup {filePath} ELSE readPaths
  /\ pc' = [pc EXCEPT ![r] = "done"]
  /\ UNCHANGED <<disk, present, req, pending, html, steps, nwrites, order, after, disk0>>

\* req.on('data', chunk => { body += chunk; })
Data(r) ==
  /\ Idle /\ pc[r] = "receiving" /\ pending[r] > 0
  /\ pending' = [pending EXCEPT ![r] = pending[r] - 1]
  /\ UNCHANGED <<disk, present, req, pc, html, steps, resp, nwrites, order, after,
                 disk0, readPaths>>

\* the 'end' callback up to and including fs.readFileSync
EndRead(r) ==
  /\ Idle /\ pc[r] = "receiving" /\ pending[r] = 0
  /\ IF ~req[r].body.json
     THEN \* JSON.parse throws: caught, 500
          /\ resp' = [resp EXCEPT ![r] = JsonError(500, "Unexpected token")]
          /\ pc' = [pc EXCEPT ![r] = "done"]
          /\ order' = Append(order, r)
          /\ after' = [after EXCEPT ![r] = disk]
          /\ html' = html
     ELSE IF ~present
     THEN /\ resp' = [resp EXCEPT ![r] = JsonError(404, "index.html not found")]
          /\ pc' = [pc EXCEPT ![r] = "done"]
          /\ order' = Append(order, r)
          /\ after' = [after EXCEPT ![r] = disk]
          /\ html' = html
     ELSE /\ html' = [html EXCEPT ![r] = disk]
          /\ pc' = [pc EXCEPT ![r] = "patching"]
          /\ UNCHANGED <<resp, order, after>>
  /\ UNCHANGED <<disk, present, req, pending, steps, nwrites, disk0, readPaths>>

\* the rest of the 'end' callback: locate the literal, splice, patch the
\* settings, fs.writeFileSync, then projects.length and the response
EndWrite(r) ==
  /\ pc[r] = "patching"
  /\ LET body == req[r].body
         spliced == Splice(html[r], Stringify(body))
         withBg == AfterBG(spliced, body)
         replaced == AfterTitle(withBg, body)
     IN  IF PatchError(html[r]) # ""
         THEN /\ resp' = [resp EXCEPT ![r] = JsonError(400, PatchError(html[r]))]
              /\ after' = [after EXCEPT ![r] = disk]
              /\ UNCHANGED <<disk, steps, nwrites>>
         ELSE /\ disk' = replaced
              /\ steps' = [steps EXCEPT ![r] =
                             [spliced |-> spliced, bg |-> withBg, title |-> replaced]]
              /\ nwrites' = [nwrites EXCEPT ![r] = nwrites[r] + 1]
              /\ after' = [after EXCEPT ![r] = replaced]
              /\ resp' = [resp EXCEPT ![r] =
                            IF body.hasProjects THEN JsonOk(Len(body.projects))
                            ELSE \* projects.length throws a TypeError: caught, 500
                                 JsonError(500, "Cannot read properties of undefined")]
  /\ pc' = [pc EXCEPT ![r] = "done"]
  /\ order' = Append(order, r)
  /\ UNCHANGED <<present, req, pending, html, disk0, readPaths>>

\* ------------------------------------------------------ specifications
InitState(d, p, qs) ==
  /\ disk = d /\ disk0 = d /\ present = p
  /\ req = qs
  /\ pc = [r \in DOMAIN qs |-> "new"]
  /\ pending = [r \in DOMAIN qs |-> MaxChunks]
  /\ html = [r \in DOMAIN qs |-> <<>>]
  /\ steps = [r \in DOMAIN qs |-> NoSteps]
  /\ resp = [r \in DOMAIN qs |-> NoResp]
  /\ nwrites = [r \in DOMAIN qs |-> 0]
  /\ after = [r \in DOMAIN qs |-> <<>>]
  /\ order = <<>>
  /\ readPaths = {}

\* at most two requests are in flight in any specification below
Reqs == 1..2
Live(r) == r \in DOMAIN req

NextSave ==
  \E r \in Reqs :
    \/ Live(r) /\ Route(r)
    \/ Live(r) /\ Data(r)
    \/ Live(r) /\ EndRead(r)
    \/ Live(r) /\ EndWrite(r)

NextAll ==
  \E r \in Reqs :
    \/ Live(r) /\ Options(r)
    \/ Live(r) /\ Route(r)
    \/ Live(r) /\ Static(r)
    \/ Live(r) /\ Data(r)
    \/ Live(r) /\ EndRead(r)
    \/ Live(r) /\ EndWrite(r)

\* the literal as the editor's page holds it
Literal == <<ANCHOR, " = ", "[", "]", ";">>

\* the literal with up to n lexemes of the alphabet before and after it
Around(alphabet, n) ==
  {pre \o Literal \o post :
     <<pre, post>> \in {pq \in SeqsUpTo(alphabet, n) \X SeqsUpTo(alphabet, n) :
                          Len(pq[1]) + Len(pq[2]) <= n}}

\* SpecPatch: one save, without settings, on every short document
PatchAlphabet == {ANCHOR, "[", "]", ";", "x"}
PatchDocs == SeqsUpTo(PatchAlphabet, MaxDocLen)
PatchPayloads ==
  {<<>>, <<Rec(<<"a", "]">>)>>, <<Rec(<<"[">>), Rec(<<"a">>)>>}
PatchBodies ==
  {Malformed, NoProjects(<<>>, <<>>)} \cup {Save(p, <<>>, <<>>) : p \in PatchPayloads}

InitPatch ==
  \E b \in PatchBodies :
    \/ \E d \in PatchDocs : InitState(d, TRUE, <<Request("POST", SavePath, b)>>)
    \/ InitState(<<>>, FALSE, <<Request("POST", SavePath, b)>>)

SpecPatch == InitPatch /\ [][NextSave]_vars

\* SpecAux: one save with settings on documents holding image references
\* and title elements around the literal
AuxAlphabet ==
  {"url(Desk_Image.png)", "url('Desk_Image.png')", "<title>", "</title>", "\n"}
AuxPayloads == {<<>>, <<Rec(<<"url(Desk_Image.png)">>)>>}
BgValues == {<<>>, <<"new.png">>, <<"$&">>}
TitleValues == {<<>>, <<"T">>}
AuxBodies ==
  {Save(p, bg, title) : p \in AuxPayloads, bg \in BgValues, title \in TitleValues}

InitAux ==
  \E d \in Around(AuxAlphabet, MaxAuxLen), b \in AuxBodies :
    InitState(d, TRUE, <<Request("POST", SavePath, b)>>)

SpecAux == InitAux /\ [][NextSave]_vars

\* SpecRace: two saves in flight at once
RaceAlphabet == {"url(Desk_Image.png)", "<title>", "</title>"}
RacePayloads == {<<>>, <<Rec(<<"]">>)>>}
RaceBodies ==
  {Save(p, bg, title) :
     p \in RacePayloads, bg \in {<<>>, <<"new.png">>}, title \in TitleValues}

InitRace ==
  \E d \in Around(RaceAlphabet, MaxRaceLen), a \in RaceBodies, b \in RaceBodies :
    InitState(d, TRUE,
              <<Request("POST", SavePath, a), Request("POST", SavePath, b)>>)

SpecRace == InitRace /\ [][NextSave]_vars

\* SpecStatic: one request of any method on any short path, beside one save
Methods == {"GET", "POST", "OPTIONS"}
PathAlphabet == {"/", "..", ".", "site", "-evil", "f", "save-projects"}
Paths == {<<"/">> \o t : t \in SeqsUpTo(PathAlphabet, MaxPathLen)}

InitStatic ==
  \E m \in Methods, path \in Paths, p \in BOOLEAN :
    InitState(IF p THEN Literal ELSE <<>>, p,
              <<Request(m, path, Save(<<Rec(<<"a">>)>>, <<>>, <<>>)),
                Request("POST", SavePath, Save(<<Rec(<<"b">>)>>, <<>>, <<>>))>>)

SpecStatic == InitStatic /\ [][NextAll]_vars

\* ================================================================ claims
\* The claims speak of the document in their own terms; these definitions
\* state those terms without the handler's scan.
Count(s, tok, a, b) == Cardinality({i \in a..b : s[i] = tok})

\* bracket depth of s[a..b]: opening brackets minus closing ones
Balance(s, a, b) == Count(s, "[", a, b) - Count(s, "]", a, b)

HasAnchor(d) == \E i \in 1..Len(d) : d[i] = ANCHOR
FirstAnchor(d) ==
  CHOOSE i \in 1..Len(d) : d[i] = ANCHOR /\ \A j \in 1..(i - 1) : d[j] # ANCHOR

HasOpen(d) == HasAnchor(d) /\ \E i \in FirstAnchor(d)..Len(d) : d[i] = "["
FirstOpen(d) ==
  CHOOSE i \in FirstAnchor(d)..Len(d) :
    d[i] = "[" /\ \A j \in FirstAnchor(d)..(i - 1) : d[j] # "["

\* the depth counted from the first "[" after the anchor is back at zero at j
ZeroAt(d, j) == d[j] = "]" /\ Balance(d, FirstOpen(d), j) = 0
HasClose(d) == HasOpen(d) /\ \E j \in FirstOpen(d)..Len(d) : ZeroAt(d, j)
FirstClose(d) ==
  CHOOSE j \in FirstOpen(d)..Len(d) :
    ZeroAt(d, j) /\ \A k \in FirstOpen(d)..(j - 1) : ~ZeroAt(d, k)

\* the last position of the removed region: the close, or the ";" right after it
RegionEnd(d) ==
  IF FirstClose(d) < Len(d) /\ d[FirstClose(d) + 1] = ";"
  THEN FirstClose(d) + 1 ELSE FirstClose(d)

Done(r) == r \in DOMAIN req /\ pc[r] = "done"
NoSettings(r) == req[r].body.bg = <<>> /\ req[r].body.title = <<>>
ErrorResponse(r) == resp[r].kind = "json" /\ ~resp[r].ok /\ resp[r].error # ""

\* C1: a successful save of payload P without settings writes exactly the
\* text before the first anchor, then "const PROJECTS = ", serialize(P) and
\* ";", then the text after the removed region, which ends at the first "]"
\* where the depth counted from the first "[" after the anchor is back at
\* zero, plus one ";" directly after it.
C1_SpliceExact ==
  \A r \in DOMAIN req :
    (Done(r) /\ resp[r].status = 200 /\ NoSettings(r)) =>
      /\ HasClose(html[r])
      /\ after[r] =
           SubSeq(html[r], 1, FirstAnchor(html[r]) - 1)
             \o <<ANCHOR, " = ">> \o SerializeArray(req[r].body.projects) \o <<";">>
             \o SubSeq(html[r], RegionEnd(html[r]) + 1, Len(html[r]))
      /\ disk = after[r]

\* a save of a payload that is not empty succeeded on a document with text
\* before the anchor and a nested bracket pair inside the literal
C1_Witness ==
  \E r \in DOMAIN req :
    /\ Done(r) /\ resp[r].status = 200 /\ NoSettings(r)
    /\ req[r].body.projects # <<>>
    /\ FirstAnchor(html[r]) > 1
    /\ \E k \in (FirstOpen(html[r]) + 1)..(FirstClose(html[r]) - 1) : html[r][k] = "]"

\* C3: a body that is valid JSON without a projects field is answered with
\* a JSON error of a non-2xx status and index.html stays as it was.
C3_NoProjectsUnchanged ==
  \A r \in DOMAIN req :
    (Done(r) /\ req[r].body.json /\ ~req[r].body.hasProjects) =>
      /\ resp[r].status >= 300 /\ ErrorResponse(r)
      /\ disk = disk0

\* C4: when the anchor is absent, no "[" follows it, or the depth never
\* returns to zero, the request is answered 400 with a JSON error and
\* index.html is not written.
C4_FailedPatchNoWrite ==
  \A r \in DOMAIN req :
    (Done(r) /\ req[r].body.json /\ present /\ ~HasClose(html[r])) =>
      /\ resp[r].status = 400 /\ ErrorResponse(r)
      /\ resp[r].error =
           (IF ~HasAnchor(html[r])
              THEN "Could not find \"const PROJECTS\" in index.html."
            ELSE IF ~HasOpen(html[r])
              THEN "Could not find opening [ after const PROJECTS."
            ELSE "Could not find closing ] for PROJECTS array.")
      /\ nwrites[r] = 0
      /\ after[r] = html[r] /\ disk = html[r] /\ disk = disk0

\* a save was refused on a document cut off inside the literal
C4_Witness ==
  \E r \in DOMAIN req :
    /\ Done(r) /\ req[r].body.hasProjects /\ present
    /\ HasOpen(html[r]) /\ ~HasClose(html[r])
    /\ Balance(html[r], FirstOpen(html[r]), Len(html[r])) > 0
    /\ resp[r].status = 400

\* C8: a body that is malformed JSON, or valid JSON without the projects
\* array, is answered with a 4xx status and a JSON error, never 2xx or 5xx.
C8_ClientError ==
  \A r \in DOMAIN req :
    (Done(r) /\ IsSaveRoute(req[r])
       /\ (~req[r].body.json \/ ~req[r].body.hasProjects)) =>
      /\ resp[r].status \in 400..499 /\ ErrorResponse(r)

\* the text with every image reference replaced, built from its end
RECURSIVE EveryRefReplaced(_, _)
EveryRefReplaced(text, bg) ==
  IF text = <<>> THEN <<>>
  ELSE LET last == text[Len(text)]
       IN  EveryRefReplaced(SubSeq(text, 1, Len(text) - 1), bg)
             \o (IF last \in BGRefs
                 THEN <<"url('">> \o [i \in 1..Len(bg) |->
                                        IF bg[i] = "$&" THEN last ELSE bg[i]] \o <<"')">>
                 ELSE <<last>>)

Refs(text) == {i \in 1..Len(text) : text[i] \in BGRefs}

\* the text with its first image reference alone replaced
FirstRefReplaced(text, bg) ==
  IF Refs(text) = {} THEN text
  ELSE LET i == CHOOSE k \in Refs(text) : \A j \in Refs(text) : k <= j
       IN  SubSeq(text, 1, i - 1) \o <<"url('">> \o bg \o <<"')">>
             \o SubSeq(text, i + 1, Len(text))

\* C5: a successful save of n records leaves on disk exactly the patched
\* text, written once, whose const PROJECTS literal is the serialization of
\* the records in order, and answers 200 {ok: true, count: n}.  (Stated for
\* requests that supply no title.)
C5_SavedLiteral ==
  \A r \in DOMAIN req :
    (Done(r) /\ resp[r].status = 200 /\ req[r].body.title = <<>>) =>
      /\ nwrites[r] = 1 /\ disk = steps[r].title
      /\ resp[r] = JsonOk(Len(req[r].body.projects))
      /\ HasAnchor(disk)
      /\ LET lit == <<ANCHOR, " = ">> \o SerializeArray(req[r].body.projects) \o <<";">>
         IN  SubSeq(disk, FirstAnchor(disk), FirstAnchor(disk) + Len(lit) - 1) = lit

C2_Idempotent ==
  \A a \in DOMAIN req, b \in DOMAIN req :
    (/\ a # b /\ order = <<a, b>>
     /\ req[a].body = req[b].body /\ NoSettings(a)
     /\ resp[a].status = 200) =>
      after[b] = after[a]

\* C9 (as the claim states it): the read-modify-write cycles of two saves
\* can interleave: while A stands between its read and its write, B, whose
\* body has arrived, can read the document.
C9_CanInterleave ==
  \A a \in DOMAIN req, b \in DOMAIN req :
    (a # b /\ pc[a] = "patching" /\ pc[b] = "receiving" /\ pending[b] = 0) =>
      ENABLED EndRead(b)

\* C9 (amended): the read-modify-write cycles of two concurrent saves do not
\* interleave: while a request stands between its read and its write the
\* document on disk is the text it read, and when both saves are answered
\* {ok: true} the second read what the first wrote, so the final document
\* is the second save applied to the result of the first and no change of
\* the first is lost but by the second save's own replacements.
C9_NoLostUpdate ==
  /\ \A r \in DOMAIN req : pc[r] = "patching" => html[r] = disk
  /\ \A a \in DOMAIN req, b \in DOMAIN req :
       (order = <<a, b>> /\ resp[a].status = 200 /\ resp[b].status = 200) =>
         /\ html[a] = disk0 /\ html[b] = after[a]
         /\ disk = Patched(Patched(disk0, req[a].body), req[b].body)

\* two saves of different payloads were both answered {ok: true}; the first
\* set a bg the second did not supply, and the final document still holds it
C9_Witness ==
  \E a \in DOMAIN req, b \in DOMAIN req :
    /\ order = <<a, b>> /\ resp[a].status = 200 /\ resp[b].status = 200
    /\ req[a].body.bg = <<"new.png">> /\ NoSettings(b)
    /\ req[a].body.projects # req[b].body.projects
    /\ Refs(disk0) # {} /\ Refs(disk) = {}
    /\ \E i \in 1..Len(disk) : disk[i] = "new.png"

\* a path is the root directory or lies inside it
SegmentInside(filePath) ==
  filePath = FOLDER \/ StartsWith(filePath, FOLDER \o <<"/">>)

StaticRequest(r) == req[r].method # "OPTIONS" /\ ~IsSaveRoute(req[r])

\* C7: a static request whose path resolves to a location that is neither
\* the root directory nor inside it is answered 403, and no file outside
\* the root is read.
C7_OutsideForbidden ==
  /\ \A r \in DOMAIN req :
       (Done(r) /\ StaticRequest(r) /\ ~SegmentInside(FilePath(req[r].path))) =>
         resp[r] = Text(403, "Forbidden")
  /\ \A p \in readPaths : SegmentInside(p)

\* C10: index.html is written only by a POST to exactly /save-projects, and
\* by each at most once; an OPTIONS request to any path is answered 204
\* with its body unread, and every other GET or POST is answered by the
\* static branch; neither touches the document.
C10_OnlySaveWrites ==
  /\ [][\A r \in DOMAIN req :
          /\ nwrites'[r] # nwrites[r] =>
               /\ req[r].method = "POST" /\ req[r].path = SavePath
               /\ nwrites[r] = 0 /\ nwrites'[r] = 1
          /\ disk' # disk => \E w \in DOMAIN req : nwrites'[w] # nwrites[w]
          /\ (pc'[r] # pc[r]
                /\ ~(req[r].method = "POST" /\ req[r].path = SavePath)) =>
               /\ pc[r] = "new" /\ pc'[r] = "done"
               /\ disk' = disk /\ nwrites' = nwrites /\ pending' = pending]_vars
  /\ [](\A r \in DOMAIN req :
          Done(r) =>
            /\ req[r].method = "OPTIONS" =>
                 /\ resp[r] = Empty(204)
                 /\ pending[r] = MaxChunks /\ nwrites[r] = 0
            /\ (req[r].method # "OPTIONS"
                  /\ ~(req[r].method = "POST" /\ req[r].path = SavePath)) =>
                 /\ resp[r].kind \in {"text", "file"}
                 /\ resp[r].status \in {403, 404, 200}
                 /\ pending[r] = MaxChunks /\ nwrites[r] = 0)

\* a GET to /save-projects went to the static branch and wrote nothing,
\* while the save beside it wrote the document
C10_Witness ==
  \E r \in DOMAIN req, w \in DOMAIN req :
    /\ Done(r) /\ req[r].method = "GET" /\ req[r].path = SavePath
    /\ resp[r].status = 404 /\ nwrites[r] = 0
    /\ Done(w) /\ nwrites[w] = 1 /\ disk # disk0

====
